---- MODULE Spec2Model ----
(***************************************************************************)
(* The OAuth partner example server (src/src/server.ts): the express       *)
(* routes /api/auth-status, /login, /callback, /api/test-connection and    *)
(* /logout of one browser, over the express-session store.  A request is   *)
(* one atomic step up to its first network await; /callback and            *)
(* /api/test-connection are suspended at their fetch and resumed by the    *)
(* answer, so other requests of the same browser can run in between.       *)
(***************************************************************************)
EXTENDS Naturals, FiniteSets, Sequences, TLC

VARIABLES
  store,    \* the session store: session id -> session data, or NoSession
  cookie,   \* the session id in the browser's cookie (0: no cookie yet)
  nextSid,  \* the next session id the store has not used yet
  cb,       \* the /callback request suspended in its token exchange, if any
  tc,       \* the /api/test-connection request suspended in its API call, if any
  last,     \* the request that completed last: what it got and what it answered
  hist,     \* history of the browser's session, for the claims over several requests
  full      \* whether last keeps the whole request or its route, response and calls

vars == <<store, cookie, nextSid, cb, tc, last, hist, full>>

(***************************************************************************)
(* Bounds of the model.                                                    *)
(***************************************************************************)
NumStates == 2   \* distinct non-empty strings generateRandomState can return
NumTokens == 1   \* distinct non-empty access tokens the provider can issue
MaxSid == 2      \* session ids the store allocates in one run

(***************************************************************************)
(* JavaScript values as far as the handlers tell them apart.               *)
(***************************************************************************)
Undefined == [t |-> "undefined"]
Str(s) == [t |-> "string", v |-> s]
ArrayVal == [t |-> "array"]      \* a repeated query parameter, ?code=a&code=b
NumberVal == [t |-> "number"]    \* a JSON number where a string is expected

IsString(x) == x.t = "string"

\* if (x) / !x / !!x
Truthy(x) ==
  CASE x.t = "undefined" -> FALSE
    [] x.t = "string" -> x.v # ""
    [] OTHER -> TRUE

StateStrings == {""} \cup {"s" \o ToString(i) : i \in 1..NumStates}
TokenStrings == {""} \cup {"t" \o ToString(i) : i \in 1..NumTokens}
RefreshStrings == {"", "r1"}

\* Math.random().toString(36).substring(2, 15): "" when Math.random() is 0
generateRandomState == {Str(s) : s \in StateStrings}

(***************************************************************************)
(* The session data and the store.                                         *)
(***************************************************************************)
EmptySession ==
  [accessToken |-> Undefined, refreshToken |-> Undefined, oauthState |-> Undefined]

NoSession == [t |-> "none"]

Sids == 1..MaxSid

\* express-session: the session of the request's cookie, or a new one (0)
ReqSid == IF cookie \in Sids /\ store[cookie] # NoSession THEN cookie ELSE 0

Loaded(sid) == IF sid = 0 THEN EmptySession ELSE store[sid]

\* express-session at the end of a response: a modified session is written to
\* the store, a new one gets its id and its cookie; an unmodified one is not saved
SaveSession(sid, pre, post) ==
  IF post = pre
    THEN UNCHANGED <<store, cookie, nextSid>>
    ELSE IF sid = 0
      THEN /\ nextSid <= MaxSid
           /\ store' = [store EXCEPT ![nextSid] = post]
           /\ cookie' = nextSid
           /\ nextSid' = nextSid + 1
      ELSE /\ store' = [store EXCEPT ![sid] = post]
           /\ UNCHANGED <<cookie, nextSid>>

\* the session the browser's next request will see
CurSession == Loaded(ReqSid)

(***************************************************************************)
(* Requests and responses.                                                 *)
(***************************************************************************)
QueryValues(strs) == {Undefined, ArrayVal} \cup {Str(s) : s \in strs}

Queries ==
  [code : QueryValues({"", "c1"}),
   error : QueryValues({"", "access_denied"}),
   state : QueryValues(StateStrings)]

NoQuery == [t |-> "none"]
NoFetch == [t |-> "none"]

Redirect(loc) == [status |-> 302, location |-> loc]
Json(st, b) == [status |-> st, body |-> b]
Unhandled == [status |-> 0, thrown |-> TRUE]   \* the exception left the handler

\* what the token endpoint can answer to the POST
TokenBodies ==
  [access_token : {Undefined, NumberVal} \cup {Str(s) : s \in TokenStrings},
   refresh_token : {Undefined, NumberVal} \cup {Str(s) : s \in RefreshStrings}]

Unreadable == [t |-> "text"]     \* a body that is not JSON

\* a conforming body under an error status, and an error page
ErrorBodies ==
  {Unreadable, [access_token |-> Str("t1"), refresh_token |-> Str("r1")]}

Rejected == [kind |-> "rejected"]   \* the fetch itself failed: no response
Response(ok, body) == [kind |-> "response", ok |-> ok, body |-> body]

TokenResponses ==
  {Rejected}
  \cup {Response(TRUE, b) : b \in TokenBodies \cup {Unreadable}}
  \cup {Response(FALSE, b) : b \in ErrorBodies}

\* what the downstream API can answer to the GET
ApiResponses ==
  {Rejected, Response(FALSE, Unreadable), Response(FALSE, [testData |-> "denied"]),
   Response(TRUE, Unreadable), Response(TRUE, [testData |-> "ok"])}

Idle == [pc |-> "idle"]

NoLogin == [t |-> "none"]

\* the history is kept where the whole request is recorded, and left as it
\* began elsewhere
Kept(h) == IF full THEN h ELSE hist

\* for a /callback that resumes after a /logout destroyed its session
\* meanwhile, the id of that session; 0 for any other request
Raced(route, calls) ==
  IF route = "callback" /\ calls > 0 /\ cb.logout THEN cb.sid ELSE 0

\* a /logout that follows a /logout which left no session in the store
Again(route) ==
  route = "logout" /\ last.route = "logout" /\ last.stored = NoSession

\* for a /callback that follows a second /login of its session: the state the
\* first /login had left in the session and the other state the second issued
Relogin(route) ==
  IF /\ route = "callback"
     /\ last.route = "login"
     /\ IsString(last.pre.oauthState)
     /\ last.pre.oauthState # last.resp.state
    THEN [superseded |-> last.pre.oauthState, issued |-> last.resp.state]
    ELSE NoLogin

\* a completed request: its route and query, the session it loaded (pre), the
\* session object as the handler left it (post), the store's entry for it once
\* the response is out (stored), the response, the answer its outbound call got
\* (fetch), the number of outbound calls it made, and whether its state value
\* had already been accepted since the /login that issued it (replay); and what
\* the claims need of the requests before it (raced, again, relogin)
Done(route, query, pre, post, stored, resp, fetch, calls, replay) ==
  IF full
    THEN [route |-> route, query |-> query, pre |-> pre, post |-> post,
          stored |-> stored, resp |-> resp, fetch |-> fetch, calls |-> calls,
          replay |-> replay, raced |-> Raced(route, calls),
          again |-> Again(route), relogin |-> Relogin(route)]
    ELSE [route |-> route, resp |-> resp, calls |-> calls,
          raced |-> Raced(route, calls)]

\* the store's entry of a request's session after SaveSession
Stored(sid, pre, post) ==
  IF post # pre THEN post ELSE IF sid = 0 THEN NoSession ELSE store[sid]

(***************************************************************************)
(* The schemas.                                                            *)
(***************************************************************************)
\* z.string().optional()
OptionalString(x) == x = Undefined \/ IsString(x)

OAuthCallbackQuerySchema(q) ==
  OptionalString(q.code) /\ OptionalString(q.error) /\ OptionalString(q.state)

OAuthTokenResponseSchema(b) ==
  IsString(b.access_token) /\ IsString(b.refresh_token)

(***************************************************************************)
(* GET /api/auth-status                                                    *)
(***************************************************************************)
AuthStatusBody(sess) == [isAuthenticated |-> Truthy(sess.accessToken)]

AuthStatus ==
  LET sid == ReqSid
      sess == Loaded(sid)
  IN /\ last' = Done("auth-status", NoQuery, sess, sess, Stored(sid, sess, sess),
                      Json(200, AuthStatusBody(sess)), NoFetch, 0, FALSE)
     /\ UNCHANGED <<store, cookie, nextSid, cb, tc, hist, full>>

(***************************************************************************)
(* GET /login                                                              *)
(***************************************************************************)
\* the redirect to `${authorize}?${params}`, of which only state varies
AuthorizeRedirect(state) ==
  [status |-> 302, location |-> "/oauth/authorize", state |-> state]

\* the state stored in a session begun anew, the tokens dropped
LoginSessionRegenerated(sess, state) == [EmptySession EXCEPT !.oauthState = state]

\* the state kept when the session already holds one
LoginSessionKeepsFirst(sess, state) ==
  IF IsString(sess.oauthState) THEN sess ELSE [sess EXCEPT !.oauthState = state]

\* line 66: req.session.oauthState = state
LoginSession(sess, state) == [sess EXCEPT !.oauthState = state]

Login(state) ==
  LET sid == ReqSid
      sess == Loaded(sid)
      post == LoginSession(sess, state)
  IN /\ SaveSession(sid, sess, post)
     /\ last' = Done("login", NoQuery, sess, post, Stored(sid, sess, post),
                      AuthorizeRedirect(state), NoFetch, 0, FALSE)
     /\ hist' = Kept([hist EXCEPT !.used = FALSE, !.out = FALSE])
     /\ UNCHANGED <<cb, tc, full>>

(***************************************************************************)
(* GET /callback                                                           *)
(***************************************************************************)
Exchange == [status |-> 0, exchange |-> TRUE]   \* go on to the token exchange

\* the checks without the comparison of state with the session's oauthState
CallbackChecksNoState(q, sess) ==
  IF ~OAuthCallbackQuerySchema(q) THEN Redirect("/callback.html?type=missing_code")
  ELSE IF Truthy(q.error) THEN Redirect("/callback.html?type=auth")
  ELSE IF ~Truthy(q.code) THEN Redirect("/callback.html?type=missing_code")
  ELSE Exchange

\* the checks with the state compared before the error parameter is looked at
CallbackChecksStateFirst(q, sess) ==
  IF ~OAuthCallbackQuerySchema(q) THEN Redirect("/callback.html?type=missing_code")
  ELSE IF q.state # sess.oauthState THEN Redirect("/callback.html?type=csrf")
  ELSE IF Truthy(q.error) THEN Redirect("/callback.html?type=auth")
  ELSE IF ~Truthy(q.code) THEN Redirect("/callback.html?type=missing_code")
  ELSE Exchange

\* the checks with the test of the code before the test of the state
CallbackChecksCodeFirst(q, sess) ==
  IF ~OAuthCallbackQuerySchema(q) THEN Redirect("/callback.html?type=missing_code")
  ELSE IF Truthy(q.error) THEN Redirect("/callback.html?type=auth")
  ELSE IF ~Truthy(q.code) THEN Redirect("/callback.html?type=missing_code")
  ELSE IF q.state # sess.oauthState THEN Redirect("/callback.html?type=csrf")
  ELSE Exchange

\* lines 82-102: the terminal branches before the try block
CallbackChecks(q, sess) ==
  IF ~OAuthCallbackQuerySchema(q) THEN Redirect("/callback.html?type=missing_code")
  ELSE IF Truthy(q.error) THEN Redirect("/callback.html?type=auth")
  ELSE IF q.state # sess.oauthState THEN Redirect("/callback.html?type=csrf")
  ELSE IF ~Truthy(q.code) THEN Redirect("/callback.html?type=missing_code")
  ELSE Exchange

CallbackBegin(q) ==
  LET sid == ReqSid
      sess == Loaded(sid)
      branch == CallbackChecks(q, sess)
      replay == hist.used /\ IsString(sess.oauthState)
  IN /\ cb = Idle
     /\ IF branch = Exchange
          THEN /\ cb' = [pc |-> "awaitToken", query |-> q, sid |-> sid,
                         sess |-> sess, replay |-> replay, logout |-> FALSE]
               /\ hist' = Kept([hist EXCEPT !.used = @ \/ IsString(sess.oauthState)])
               /\ UNCHANGED last
          ELSE /\ last' = Done("callback", q, sess, sess, Stored(sid, sess, sess),
                               branch, NoFetch, 0, FALSE)
               /\ UNCHANGED <<cb, hist>>
     /\ UNCHANGED <<store, cookie, nextSid, tc, full>>

Threw == [threw |-> TRUE]

\* the exchange without the test of tokenResponse.ok
TokenExchangeIgnoresStatus(r) ==
  IF r = Rejected THEN Threw
  ELSE IF r.body = Unreadable THEN Threw
  ELSE IF ~OAuthTokenResponseSchema(r.body) THEN Threw
  ELSE [threw |-> FALSE, tokenData |-> r.body]

\* the exchange without the schema: the body is used as it was read
TokenExchangeUnvalidated(r) ==
  IF r = Rejected THEN Threw
  ELSE IF ~r.ok THEN Threw
  ELSE IF r.body = Unreadable THEN Threw
  ELSE [threw |-> FALSE, tokenData |-> r.body]

\* lines 105-123: what the try block yields for an answer of the token endpoint
TokenExchange(r) ==
  IF r = Rejected THEN Threw                           \* await fetch(...) rejects
  ELSE IF ~r.ok THEN Threw                             \* throw new Error(...)
  ELSE IF r.body = Unreadable THEN Threw               \* tokenResponse.json() rejects
  ELSE IF ~OAuthTokenResponseSchema(r.body) THEN Threw \* .parse throws ZodError
  ELSE [threw |-> FALSE, tokenData |-> r.body]

\* the assignments with the refresh token left out
CallbackSessionAccessOnly(sess, out) ==
  IF out.threw THEN sess
  ELSE [sess EXCEPT !.accessToken = out.tokenData.access_token]

\* the tokens dropped when the exchange fails
CallbackSessionClearedOnFailure(sess, out) ==
  IF out.threw
    THEN [sess EXCEPT !.accessToken = Undefined, !.refreshToken = Undefined]
    ELSE [sess EXCEPT !.accessToken = out.tokenData.access_token,
                      !.refreshToken = out.tokenData.refresh_token]

\* lines 125-126
CallbackSession(sess, out) ==
  IF out.threw THEN sess
  ELSE [sess EXCEPT !.accessToken = out.tokenData.access_token,
                    !.refreshToken = out.tokenData.refresh_token]

\* lines 128-138: the redirect of the try block or of the catch block
CallbackResponse(out) ==
  IF out.threw THEN Redirect("/callback.html?type=token_failed")
  ELSE Redirect("/")

\* the one fetch of a handler is retried on a failure
OutboundCallsRetried(r) == IF r = Rejected THEN 2 ELSE 1

\* lines 105 and 147: one fetch in the handler, in no loop
OutboundCalls(r) == 1

CallbackResume(r) ==
  LET out == TokenExchange(r)
      post == CallbackSession(cb.sess, out)
      mine == cb.sid = 0 \/ cb.sid = cookie
  IN /\ cb.pc = "awaitToken"
     /\ SaveSession(cb.sid, cb.sess, post)
     /\ last' = Done("callback", cb.query, cb.sess, post,
                      Stored(cb.sid, cb.sess, post), CallbackResponse(out), r,
                      OutboundCalls(r), cb.replay)
     /\ cb' = Idle
     /\ hist' = Kept([hist EXCEPT !.authSince = @ \/ (~out.threw /\ mine)])
     /\ UNCHANGED <<tc, full>>

(***************************************************************************)
(* GET /api/test-connection                                                *)
(***************************************************************************)
\* the test as a comparison with undefined: an empty token passes it
TestConnectionAuthorizedIfDefined(sess) == sess.accessToken # Undefined

\* line 142: if (!req.session.accessToken) return 401
TestConnectionAuthorized(sess) == Truthy(sess.accessToken)

TestConnectionBegin ==
  LET sid == ReqSid
      sess == Loaded(sid)
  IN /\ tc = Idle
     /\ IF ~TestConnectionAuthorized(sess)
          THEN /\ last' = Done("test-connection", NoQuery, sess, sess,
                               Stored(sid, sess, sess),
                               Json(401, [error |-> "Not authenticated"]), NoFetch, 0, FALSE)
               /\ UNCHANGED tc
          ELSE /\ tc' = [pc |-> "awaitApi", sid |-> sid, sess |-> sess,
                         bearer |-> sess.accessToken]
               /\ UNCHANGED last
     /\ UNCHANGED <<store, cookie, nextSid, cb, hist, full>>

\* the downstream answer passed on with a 200 whatever its status
TestConnectionResponseRelayed(r) ==
  IF r = Rejected THEN Json(500, [error |-> "errorMessage"])
  ELSE IF r.body = Unreadable THEN Json(500, [error |-> "errorMessage"])
  ELSE Json(200, r.body)

\* lines 154-167
TestConnectionResponse(r) ==
  IF r = Rejected THEN Json(500, [error |-> "errorMessage"])              \* await fetch(...) rejects
  ELSE IF ~r.ok THEN Json(500, [error |-> "errorMessage"])                \* throw new Error(...)
  ELSE IF r.body = Unreadable THEN Json(500, [error |-> "errorMessage"])  \* apiResponse.json() rejects
  ELSE Json(200, r.body)

TestConnectionResume(r) ==
  /\ tc.pc = "awaitApi"
  /\ last' = Done("test-connection", NoQuery, tc.sess, tc.sess,
                   Stored(tc.sid, tc.sess, tc.sess), TestConnectionResponse(r),
                   r, OutboundCalls(r), FALSE)
  /\ tc' = Idle
  /\ UNCHANGED <<store, cookie, nextSid, cb, hist, full>>

(***************************************************************************)
(* GET /logout                                                             *)
(***************************************************************************)
\* req.session.destroy(cb): the store drops the entry, or fails and keeps it
Destroy(sid, destroyed) ==
  IF sid # 0 /\ destroyed THEN [store EXCEPT ![sid] = NoSession] ELSE store

\* the redirect only when the session was destroyed, an error otherwise
LogoutResponseFailing(destroyed) ==
  IF destroyed THEN Redirect("/")
  ELSE Json(500, [error |-> "Session destruction error"])

\* no response at all when the session was not destroyed
LogoutResponseUnanswered(destroyed) ==
  IF destroyed THEN Redirect("/") ELSE Unhandled

\* lines 172-175: the error is logged, the redirect is sent in both cases
LogoutResponse(destroyed) == Redirect("/")

\* a suspended /callback of the session that this /logout destroys
LogoutDuring(sid, destroyed) ==
  IF cb.pc = "awaitToken" /\ destroyed /\ sid # 0 /\ cb.sid = sid
    THEN [cb EXCEPT !.logout = TRUE]
    ELSE cb

Logout(destroyed) ==
  LET sid == ReqSid
      sess == Loaded(sid)
  IN /\ store' = Destroy(sid, destroyed)
     /\ cb' = LogoutDuring(sid, destroyed)
     /\ last' = Done("logout", NoQuery, sess, NoSession,
                      IF sid = 0 THEN NoSession ELSE store'[sid],
                      LogoutResponse(destroyed), NoFetch, 0, FALSE)
     /\ hist' = Kept([used |-> IF destroyed THEN FALSE ELSE hist.used,
                  authSince |-> FALSE,
                  out |-> hist.out \/ destroyed])
     /\ UNCHANGED <<cookie, nextSid, tc, full>>

(***************************************************************************)
(* The server.                                                             *)
(***************************************************************************)
InitWith(f) ==
  /\ full = f
  /\ store = [s \in Sids |-> NoSession]
  /\ cookie = 0
  /\ nextSid = 1
  /\ cb = Idle
  /\ tc = Idle
  /\ last = IF f
              THEN [route |-> "none", query |-> NoQuery, pre |-> EmptySession,
                    post |-> EmptySession, stored |-> NoSession,
                    resp |-> Json(0, [error |-> "none"]), fetch |-> NoFetch,
                    calls |-> 0, replay |-> FALSE, raced |-> 0,
                    again |-> FALSE, relogin |-> NoLogin]
              ELSE [route |-> "none", resp |-> Json(0, [error |-> "none"]),
                    calls |-> 0, raced |-> 0]
  /\ hist = [used |-> FALSE, authSince |-> FALSE, out |-> FALSE]

\* requests of one browser interleave at their awaits
Init == InitWith(FALSE)

Next ==
  \/ AuthStatus
  \/ \E state \in generateRandomState : Login(state)
  \/ \E q \in Queries : CallbackBegin(q)
  \/ \E r \in TokenResponses : CallbackResume(r)
  \/ TestConnectionBegin
  \/ \E r \in ApiResponses : TestConnectionResume(r)
  \/ \E destroyed \in BOOLEAN : Logout(destroyed)

Spec == Init /\ [][Next]_vars

\* requests handled one at a time: none starts while another is suspended
NoneSuspended == cb = Idle /\ tc = Idle

NextSeq ==
  \/ NoneSuspended /\ AuthStatus
  \/ NoneSuspended /\ \E state \in generateRandomState : Login(state)
  \/ NoneSuspended /\ \E q \in Queries : CallbackBegin(q)
  \/ \E r \in TokenResponses : CallbackResume(r)
  \/ NoneSuspended /\ TestConnectionBegin
  \/ \E r \in ApiResponses : TestConnectionResume(r)
  \/ NoneSuspended /\ \E destroyed \in BOOLEAN : Logout(destroyed)

SeqInit == InitWith(TRUE)

SeqSpec == SeqInit /\ [][NextSeq]_vars

(***************************************************************************)
(* The untyped variant of the server, lines 189-339.  Its /callback reads  *)
(* the query and the token response without a schema and has other         *)
(* locations; its other routes are the ones above.                         *)
(***************************************************************************)
\* lines 250-265: the terminal branches before the try block
CallbackChecksUntyped(q, sess) ==
  IF Truthy(q.error) THEN Redirect("/error.html?type=auth")
  ELSE IF q.state # sess.oauthState THEN Redirect("/error.html?type=csrf")
  ELSE IF ~Truthy(q.code) THEN Redirect("/error.html?type=missing_code")
  ELSE Exchange

\* lines 267-284: what the try block yields for an answer of the token endpoint
TokenExchangeUntyped(r) ==
  IF r = Rejected THEN Threw                  \* await fetch(...) rejects
  ELSE IF ~r.ok THEN Threw                    \* throw new Error(...)
  ELSE IF r.body = Unreadable THEN Threw      \* tokenResponse.json() rejects
  ELSE [threw |-> FALSE, tokenData |-> r.body]

\* lines 286-287: whatever the two properties of the body are is assigned
CallbackSessionUntyped(sess, out) ==
  IF out.threw THEN sess
  ELSE [sess EXCEPT !.accessToken = out.tokenData.access_token,
                    !.refreshToken = out.tokenData.refresh_token]

\* lines 289-297: the redirect of the try block or of the catch block
CallbackResponseUntyped(out) ==
  IF out.threw THEN Redirect("/error.html?type=token_failed")
  ELSE Redirect("/test-connection.html")

CallbackBeginUntyped(q) ==
  LET sid == ReqSid
      sess == Loaded(sid)
      branch == CallbackChecksUntyped(q, sess)
      replay == hist.used /\ IsString(sess.oauthState)
  IN /\ cb = Idle
     /\ IF branch = Exchange
          THEN /\ cb' = [pc |-> "awaitToken", query |-> q, sid |-> sid,
                         sess |-> sess, replay |-> replay, logout |-> FALSE]
               /\ hist' = Kept([hist EXCEPT !.used = @ \/ IsString(sess.oauthState)])
               /\ UNCHANGED last
          ELSE /\ last' = Done("callback", q, sess, sess, Stored(sid, sess, sess),
                               branch, NoFetch, 0, FALSE)
               /\ UNCHANGED <<cb, hist>>
     /\ UNCHANGED <<store, cookie, nextSid, tc, full>>

CallbackResumeUntyped(r) ==
  LET out == TokenExchangeUntyped(r)
      post == CallbackSessionUntyped(cb.sess, out)
      mine == cb.sid = 0 \/ cb.sid = cookie
  IN /\ cb.pc = "awaitToken"
     /\ SaveSession(cb.sid, cb.sess, post)
     /\ last' = Done("callback", cb.query, cb.sess, post,
                      Stored(cb.sid, cb.sess, post),
                      CallbackResponseUntyped(out), r, OutboundCalls(r),
                      cb.replay)
     /\ cb' = Idle
     /\ hist' = Kept([hist EXCEPT !.authSince = @ \/ (~out.threw /\ mine)])
     /\ UNCHANGED <<tc, full>>

\* the queries and the token responses the untyped variant is run with: each
\* parameter absent or a string, each answer of the token endpoint of one kind
UntypedQueries ==
  [code : {Undefined, Str("c1")},
   error : {Undefined, Str("access_denied")},
   state : {Undefined} \cup {Str(s) : s \in StateStrings}]

UntypedTokenResponses ==
  {Rejected, Response(FALSE, Unreadable), Response(TRUE, Unreadable),
   Response(TRUE, [access_token |-> Str("t1"), refresh_token |-> Str("r1")]),
   Response(TRUE, [access_token |-> Undefined, refresh_token |-> Str("r1")]),
   Response(TRUE, [access_token |-> NumberVal, refresh_token |-> Undefined])}

\* the untyped variant, its requests handled one at a time
NextUntyped ==
  \/ NoneSuspended /\ AuthStatus
  \/ NoneSuspended /\ \E state \in generateRandomState : Login(state)
  \/ NoneSuspended /\ \E q \in UntypedQueries : CallbackBeginUntyped(q)
  \/ \E r \in UntypedTokenResponses : CallbackResumeUntyped(r)
  \/ NoneSuspended /\ TestConnectionBegin
  \/ \E r \in ApiResponses : TestConnectionResume(r)
  \/ NoneSuspended /\ \E destroyed \in BOOLEAN : Logout(destroyed)

UntypedSpec == SeqInit /\ [][NextUntyped]_vars

(***************************************************************************)
(* The claims.  They read last, the request that completed last, so each   *)
(* invariant speaks of every request of every run.                         *)
(***************************************************************************)
IsCallback == last.route = "callback"
View(type) == Redirect("/callback.html?type=" \o type)
Landing == Redirect("/")

Exchanged == IsCallback /\ last.calls > 0

\* the two tokens of a store entry, none for a session that is not stored
TokensOf(s) ==
  IF s = NoSession THEN <<Undefined, Undefined>>
  ELSE <<s.accessToken, s.refreshToken>>

\* C1: /callback makes the token-exchange POST only when the session has an
\* oauth_state that a /login stored and the state parameter equals it, no
\* error parameter is carried (an empty one counted as none) and a code is
\* carried.
C1_ExchangeOnlyOnLoginState ==
  Exchanged =>
    /\ IsString(last.pre.oauthState)
    /\ last.query.state = last.pre.oauthState
    /\ ~Truthy(last.query.error)
    /\ last.query.code # Undefined

\* C2 as stated, for the queries that pass the schema: every /callback whose
\* state differs from the session's oauth_state is answered with the csrf
\* view and makes no token exchange.
C2_MismatchAlwaysCsrf ==
  (/\ IsCallback
   /\ OAuthCallbackQuerySchema(last.query)
   /\ last.query.state # last.pre.oauthState)
  => last.resp = View("csrf") /\ last.calls = 0

\* C2 as amended: a /callback whose state differs from the session's
\* oauth_state never makes a token exchange, and it is answered with the csrf
\* view when its query passes the schema and carries no non-empty error.
C2_MismatchNoExchange ==
  (IsCallback /\ last.query.state # last.pre.oauthState) =>
    /\ last.calls = 0
    /\ (OAuthCallbackQuerySchema(last.query) /\ ~Truthy(last.query.error))
         => last.resp = View("csrf")

C2_Witness ==
  /\ IsCallback
  /\ last.query.state = Str("s2")
  /\ last.pre.oauthState = Str("s1")
  /\ last.query.code = Str("c1")
  /\ last.resp = View("csrf")

\* C3: once a callback has been accepted on the session's oauth_state, a
\* later callback with that state and no /login in between makes no token
\* exchange.
C3_StateSingleUse == (IsCallback /\ last.replay) => last.calls = 0

\* C4: when the token endpoint answers a callback's exchange successfully
\* with strings a and b as access_token and refresh_token, the session holds
\* a and b afterwards, in the request and in the store, and the response is
\* the redirect to "/".
C4_TokensStored ==
  (/\ Exchanged
   /\ last.fetch # Rejected
   /\ last.fetch.ok
   /\ last.fetch.body # Unreadable
   /\ IsString(last.fetch.body.access_token)
   /\ IsString(last.fetch.body.refresh_token))
  => /\ last.post.accessToken = last.fetch.body.access_token
     /\ last.post.refreshToken = last.fetch.body.refresh_token
     /\ TokensOf(last.stored) =
          <<last.fetch.body.access_token, last.fetch.body.refresh_token>>
     /\ last.resp = Landing

C4_Witness ==
  /\ Exchanged
  /\ last.pre.accessToken = Undefined
  /\ last.fetch = Response(TRUE, [access_token |-> Str("t1"),
                                   refresh_token |-> Str("r1")])
  /\ last.stored # NoSession
  /\ last.stored.accessToken = Str("t1")
  /\ last.stored.refreshToken = Str("r1")
  /\ last.resp = Landing

\* C5: when the token endpoint answers a callback's exchange with a non-2xx
\* status, the response is the token_failed view and the session's tokens
\* are what they were, in the request and in the store.
C5_ErrorStatusKeepsTokens ==
  (Exchanged /\ last.fetch # Rejected /\ ~last.fetch.ok) =>
    /\ last.resp = View("token_failed")
    /\ TokensOf(last.post) = TokensOf(last.pre)
    /\ TokensOf(last.stored) = TokensOf(last.pre)

C5_Witness ==
  /\ Exchanged
  /\ last.fetch = Response(FALSE, [access_token |-> Str("t1"),
                                    refresh_token |-> Str("r1")])
  /\ last.resp = View("token_failed")
  /\ TokensOf(last.stored) = <<Undefined, Undefined>>

\* C6 as stated, for an error parameter that is a non-empty string: every
\* /callback that carries one is answered with the auth view and makes no
\* token exchange, whatever its code and state.
C6_ErrorAlwaysAuth ==
  (IsCallback /\ IsString(last.query.error) /\ Truthy(last.query.error)) =>
    last.resp = View("auth") /\ last.calls = 0

\* C6 as amended: every /callback whose query passes the schema and whose
\* error parameter is a non-empty string is answered with the auth view and
\* makes no token exchange, whatever its code and state.
C6_ErrorGivesAuth ==
  (/\ IsCallback
   /\ OAuthCallbackQuerySchema(last.query)
   /\ Truthy(last.query.error))
  => last.resp = View("auth") /\ last.calls = 0

C6_Witness ==
  /\ IsCallback
  /\ last.query.error = Str("access_denied")
  /\ last.query.code = Str("c1")
  /\ last.query.state = Str("s2")
  /\ last.pre.oauthState = Str("s1")
  /\ last.resp = View("auth")

\* C7: /api/auth-status answers isAuthenticated=false on a fresh session,
\* and isAuthenticated=true once a callback of the session has ended in the
\* redirect to "/" and no /logout has happened since.
C7_AuthStatusAfterCallback ==
  last.route = "auth-status" =>
    /\ last.pre = EmptySession => ~last.resp.body.isAuthenticated
    /\ hist.authSince => last.resp.body.isAuthenticated

\* C8: /api/test-connection on a session that holds no access token answers
\* 401 and makes no call to the downstream API.
C8_NoTokenNoCall ==
  (last.route = "test-connection" /\ ~Truthy(last.pre.accessToken)) =>
    last.resp.status = 401 /\ last.calls = 0

C8_Witness ==
  /\ last.route = "test-connection"
  /\ last.pre.accessToken = Str("")
  /\ last.resp.status = 401
  /\ last.calls = 0

\* C9: every /callback ends in a redirect, none in an exception that leaves
\* the handler, and every failure of the token exchange (the POST rejected, a
\* non-2xx status, a body that is not JSON or does not conform) ends in the
\* token_failed view.
C9_AlwaysRedirect ==
  IsCallback =>
    /\ last.resp.status = 302
    /\ (/\ last.calls > 0
         /\ \/ last.fetch = Rejected
            \/ ~last.fetch.ok
            \/ last.fetch.body = Unreadable
            \/ ~OAuthTokenResponseSchema(last.fetch.body))
        => last.resp = View("token_failed")

C9_Witness ==
  /\ Exchanged
  /\ last.fetch = Response(TRUE, [access_token |-> Str("t1"),
                                   refresh_token |-> Undefined])
  /\ last.resp = View("token_failed")

\* C10: after a /logout has destroyed the session, and until a new /login,
\* /api/auth-status answers false and /api/test-connection answers 401, the
\* requests handled one at a time.
C10_LoggedOutUntilLogin ==
  hist.out =>
    /\ last.route = "auth-status" => ~last.resp.body.isAuthenticated
    /\ last.route = "test-connection" => last.resp.status = 401

\* C11: a /logout that follows a /logout after which the store held no session
\* answers the redirect to "/" as well, whether or not its own destroy reports
\* an error, and leaves the session as the first one left it: absent from the
\* store, and read by the next request as it was read by the second /logout.
C11_LogoutIdempotent ==
  (last.route = "logout" /\ last.again) =>
    /\ last.resp = Landing
    /\ last.stored = NoSession
    /\ CurSession = last.pre

C11_Witness ==
  /\ last.route = "logout"
  /\ last.again
  /\ last.resp = Landing
  /\ cookie # 0

\* C12: every /logout answers the redirect to "/", whether the destroy of the
\* session succeeded (the entry is gone) or failed (the entry is still there).
C12_LogoutAlwaysRedirects ==
  last.route = "logout" => last.resp = Landing

C12_Witness ==
  /\ last.route = "logout"
  /\ Truthy(last.pre.accessToken)
  /\ last.stored = last.pre
  /\ last.resp = Landing

\* C13: the checks of /callback end the request in the order shape, error,
\* state, code. A well-formed query with no error (none or an empty one) and no
\* code (none or an empty one) gets the csrf view when its state differs from
\* the session's and the missing_code view when it equals it, and in neither
\* case is the token endpoint called.
C13_CheckOrder ==
  (/\ IsCallback
   /\ OAuthCallbackQuerySchema(last.query)
   /\ ~Truthy(last.query.error)
   /\ ~Truthy(last.query.code)) =>
    /\ last.calls = 0
    /\ last.query.state # last.pre.oauthState => last.resp = View("csrf")
    /\ last.query.state = last.pre.oauthState => last.resp = View("missing_code")

C13_Witness ==
  /\ IsCallback
  /\ last.query = [code |-> Undefined, error |-> Undefined, state |-> Str("s2")]
  /\ last.pre.oauthState = Str("s1")
  /\ last.resp = View("csrf")
  /\ last.calls = 0

C13_WitnessMatching ==
  /\ IsCallback
  /\ last.query = [code |-> Undefined, error |-> Undefined, state |-> Str("s1")]
  /\ last.pre.oauthState = Str("s1")
  /\ last.resp = View("missing_code")
  /\ last.calls = 0

\* C14: when the token endpoint answers with a success status and a JSON body
\* in which access_token or refresh_token is missing or is not a string, the
\* /callback (one with a well-formed query, after a /login) ends in the token_failed view (at the location of either variant
\* of the server) and the session's two tokens are what they were before, in
\* the request's session and in the store.
C14_NonConformingBodyFails ==
  (/\ Exchanged
   /\ OAuthCallbackQuerySchema(last.query)
   /\ IsString(last.pre.oauthState)
   /\ last.fetch # Rejected
   /\ last.fetch.ok
   /\ last.fetch.body # Unreadable
   /\ ~OAuthTokenResponseSchema(last.fetch.body)) =>
    /\ last.resp \in {View("token_failed"),
                      Redirect("/error.html?type=token_failed")}
    /\ TokensOf(last.post) = TokensOf(last.pre)
    /\ TokensOf(last.stored) = TokensOf(last.pre)

C14_TypedWitness ==
  /\ Exchanged
  /\ last.fetch = Response(TRUE, [access_token |-> NumberVal,
                                   refresh_token |-> Str("r1")])
  /\ last.resp = View("token_failed")
  /\ Truthy(last.pre.accessToken)
  /\ last.stored = last.pre

\* C15: /login stores the state it generated in the session and redirects to
\* the authorization URL with that same value as its state parameter; the
\* session's tokens are the ones it had before, in the request's session and
\* in the store.
C15_LoginStoresState ==
  last.route = "login" =>
    /\ IsString(last.post.oauthState)
    /\ last.resp = AuthorizeRedirect(last.post.oauthState)
    /\ TokensOf(last.post) = TokensOf(last.pre)
    /\ last.stored = last.post
    /\ CurSession = last.post

C15_Witness ==
  /\ last.route = "login"
  /\ last.pre.accessToken = Str("t1")
  /\ last.pre.oauthState = Str("s1")
  /\ last.resp = AuthorizeRedirect(Str("s2"))
  /\ CurSession.oauthState = Str("s2")
  /\ CurSession.accessToken = Str("t1")

\* C16: /api/auth-status and /api/test-connection leave the session as they
\* found it whatever they answer (200, 401, 500): the next request reads the
\* session they read; and a downstream response with a non-success status, like
\* a failed or unreadable one, is answered with 500.
C16_ReadOnlyRoutes ==
  /\ last.route \in {"auth-status", "test-connection"} =>
       /\ last.post = last.pre
       /\ CurSession = last.pre
       /\ last.resp.status \in {200, 401, 500}
  /\ (/\ last.route = "test-connection"
      /\ last.calls > 0
      /\ \/ last.fetch = Rejected
         \/ ~last.fetch.ok
         \/ last.fetch.body = Unreadable) => last.resp.status = 500

C16_Witness ==
  /\ last.route = "test-connection"
  /\ last.fetch = Response(FALSE, [testData |-> "denied"])
  /\ last.resp.status = 500
  /\ last.pre.accessToken = Str("t1")
  /\ CurSession = last.pre

\* C18: a /callback that ends in an error view (missing_code, auth, csrf,
\* token_failed) leaves access token, refresh token and oauthState as they
\* were: in the request's session and in the session the next request reads.
\* A session that was authenticated stays so, with the tokens it had.
C18_ErrorViewKeepsSession ==
  (/\ IsCallback
   /\ last.resp \in {View("missing_code"), View("auth"), View("csrf"),
                     View("token_failed")}) =>
    /\ last.post = last.pre
    /\ CurSession = last.pre

C18_Witness ==
  /\ Exchanged
  /\ last.resp = View("token_failed")
  /\ last.pre.accessToken = Str("t1")
  /\ last.pre.refreshToken = Str("r1")
  /\ CurSession = last.pre

\* C20: no request makes more than one outbound call, and a /callback or an
\* /api/test-connection whose call failed (no response, or an error status)
\* reports it in its own response: the token_failed view, the 500.
C20_NoRetry ==
  /\ last.calls <= 1
  /\ (last.calls > 0 /\ (last.fetch = Rejected \/ ~last.fetch.ok)) =>
       /\ IsCallback => last.resp = View("token_failed")
       /\ last.route = "test-connection" => last.resp.status = 500

C20_Witness ==
  /\ IsCallback
  /\ last.calls = 1
  /\ last.fetch = Rejected
  /\ last.resp = View("token_failed")

C19_WitnessSecond ==
  /\ Exchanged
  /\ last.relogin = [superseded |-> Str("s1"), issued |-> Str("s2")]
  /\ last.query.state = Str("s2")
  /\ last.resp = Landing

\* C17: when a /logout of a session has run to completion, destroying it,
\* while a /callback of the same session was suspended in its token exchange,
\* then once the /callback has finished too the store holds no access token
\* for that session: the /callback has not brought the session back.
C17_LogoutNotUndone ==
  last.raced # 0 =>
    \/ store[last.raced] = NoSession
    \/ ~Truthy(store[last.raced].accessToken)

====
